---- MODULE Spec2Model ----
(***************************************************************************)
(* Star-schema warehouse of week2-sql: the Type-2 customer dimension       *)
(* (dim_customer) loaded by DataWarehouseETL and changed by                *)
(* SCDManager.update_customer_tier, and the fact table (fact_sales).       *)
(*                                                                         *)
(* Spec         calls of update_customer_tier between the customer and the *)
(*              fact load                                                  *)
(* SpecETL      DataWarehouseETL: run_full_etl step by step, and its       *)
(*              guarded loaders called on their own                        *)
(* SpecPipeline run_pipeline of projects/nba_pipeline, phase by phase      *)
(* SpecTransformer  NBADataTransformer._handle_duplicates on small frames  *)
(*                                                                         *)
(* A date is the text 'YYYY-MM-DD'; it is written <<y, m, d>>, whose       *)
(* lexicographic order is the order SQLite gives the zero-padded text.     *)
(* A timestamp written by datetime.now() is abstracted to the statement    *)
(* that wrote it ("etl_load", "scd_update").                               *)
(***************************************************************************)
EXTENDS Integers, Sequences, FiniteSets, TLC

VARIABLES
    dim_customer,     \* dim_customer as SCDManager.conn sees it (uncommitted writes included)
    db_dim_customer,  \* dim_customer as committed in data_warehouse.db
    fact_sales,       \* fact_sales (committed; only the ETL connection writes it)
    last,             \* the call that was made last, its customer and its outcome
    issued_keys,      \* history: every customer_key a dim_customer row ever had
    aborted,          \* history: an update_customer_tier call has raised
    source_orders,    \* sales_analytics.db: the rows of orders JOIN order_items
    dim_date,         \* dim_date (committed)
    dim_product,      \* dim_product (committed)
    dim_order_status, \* dim_order_status (committed)
    dim_payment_method, \* dim_payment_method (committed)
    run,              \* run_full_etl: the step it is at, the steps it completed, what it caught
    pipeline,         \* nba_pipeline run_pipeline: its phase, its locals, its result, its outputs
    frame             \* a DataFrame given to _handle_duplicates, and what came back

scd_vars == <<dim_customer, db_dim_customer, fact_sales, last, issued_keys, aborted>>

etl_vars == <<source_orders, dim_date, dim_product, dim_order_status, dim_payment_method, run>>

pipe_vars == <<pipeline>>

frame_vars == <<frame>>

vars == <<scd_vars, etl_vars, pipe_vars, frame_vars>>

\* ------------------------------------------------------------------ bounds

\* a DataFrame given to _handle_duplicates on its own has at most this many rows
MaxFrameRows == 3

\* dim_customer holds at most this many rows (update calls that would insert
\* one more are not taken).
MaxDimRows == 4

\* ------------------------------------------------------------------ dates

\* valid_to of an open row
MaxDate == <<9999, 12, 31>>

DAYS_IN_MONTH == <<31, 28, 31, 30, 31, 30, 31, 31, 30, 31, 30, 31>>

DAYS_BEFORE_MONTH == <<0, 31, 59, 90, 120, 151, 181, 212, 243, 273, 304, 334>>

is_leap(year) == year % 4 = 0 /\ (year % 100 # 0 \/ year % 400 = 0)

days_before_year(year) ==
    LET y == year - 1
    IN  y * 365 + (y \div 4) - (y \div 100) + (y \div 400)

days_before_month(year, month) ==
    DAYS_BEFORE_MONTH[month] + (IF month > 2 /\ is_leap(year) THEN 1 ELSE 0)

\* datetime.strptime(text, '%Y-%m-%d'): the day's proleptic Gregorian ordinal
strptime(text) ==
    days_before_year(text[1]) + days_before_month(text[1], text[2]) + text[3]

\* datetime.strftime('%Y-%m-%d') of the day with ordinal n
strftime(ordinal) ==
    LET n0   == ordinal - 1
        n400 == n0 \div 146097
        r400 == n0 % 146097
        n100 == r400 \div 36524
        r100 == r400 % 36524
        n4   == r100 \div 1461
        r4   == r100 % 1461
        n1   == r4 \div 365
        n    == r4 % 365
        year == n400 * 400 + 1 + n100 * 100 + n4 * 4 + n1
        leapyear == n1 = 3 /\ (n4 # 24 \/ n100 = 3)
        leapday(m) == IF m > 2 /\ leapyear THEN 1 ELSE 0
        month0 == (n + 50) \div 32
        preceding0 == DAYS_BEFORE_MONTH[month0] + leapday(month0)
        month == IF preceding0 > n THEN month0 - 1 ELSE month0
        preceding == IF preceding0 > n
                     THEN preceding0 - (DAYS_IN_MONTH[month]
                                        + (IF month = 2 /\ leapyear THEN 1 ELSE 0))
                     ELSE preceding0
    IN  IF n1 = 4 \/ n100 = 4
        THEN <<year - 1, 12, 31>>
        ELSE <<year, month, n - preceding + 1>>

\* mutant: valid_to is set to the effective date itself (a half-open interval)
yesterday_is_effective_date(effective_date) == effective_date

\* mutant: the day is decremented on the text, without the calendar
yesterday_on_text(effective_date) ==
    <<effective_date[1], effective_date[2], effective_date[3] - 1>>

\* (strptime(effective_date) - timedelta(days=1)).strftime('%Y-%m-%d')
yesterday_of(effective_date) == strftime(strptime(effective_date) - 1)

\* order_date.replace('-', '') as an integer
date_key_of(text) == text[1] * 10000 + text[2] * 100 + text[3]

\* ------------------------------------------------------------ source data

\* rows of sales_analytics.db.customers (customer_id is its primary key)
SourceCustomers ==
    << [customer_id |-> 1, first_name |-> "Alice", last_name |-> "Ames",
        email |-> "alice.ames1@email.com", phone |-> "555-0001",
        city |-> "Austin", state |-> "TX",
        customer_tier |-> "Bronze", registration_date |-> <<2024, 1, 1>>],
       [customer_id |-> 2, first_name |-> "Bob", last_name |-> "Byrd",
        email |-> "bob.byrd2@email.com", phone |-> "555-0002",
        city |-> "Boston", state |-> "MA",
        customer_tier |-> "Silver", registration_date |-> <<2024, 4, 20>>] >>

\* rows of sales_analytics.db.categories and products (primary keys
\* category_id, product_id)
SourceCategories ==
    << [category_id |-> 1, category_name |-> "Electronics",
        description |-> "Electronic devices and accessories"] >>

SourceProducts ==
    << [product_id |-> 1, product_name |-> "Laptop", category_id |-> 1,
        unit_price |-> 20, is_active |-> 1],
       [product_id |-> 2, product_name |-> "Smartphone", category_id |-> 1,
        unit_price |-> 35, is_active |-> 1] >>

\* rows of orders JOIN order_items (order_id, order_item_id, order_date,
\* customer_id, product_id, order_status), generated in mid 2024
SourceOrderItems ==
    << [order_id |-> 1, order_item_id |-> 1, order_date |-> <<2024, 3, 5>>,
        customer_id |-> 1, product_id |-> 1, order_status |-> "Completed"],
       [order_id |-> 2, order_item_id |-> 2, order_date |-> <<2024, 7, 1>>,
        customer_id |-> 2, product_id |-> 2, order_status |-> "Completed"],
       [order_id |-> 3, order_item_id |-> 3, order_date |-> <<2024, 7, 2>>,
        customer_id |-> 1, product_id |-> 1, order_status |-> "Pending"] >>

\* the same tables generated in early 2026 (order dates lie in the year
\* before the day setup_database.py is run); order 2 has two items
SourceOrderItemsLate ==
    << [order_id |-> 1, order_item_id |-> 1, order_date |-> <<2025, 11, 20>>,
        customer_id |-> 1, product_id |-> 1, order_status |-> "Completed"],
       [order_id |-> 2, order_item_id |-> 2, order_date |-> <<2026, 1, 2>>,
        customer_id |-> 2, product_id |-> 2, order_status |-> "Completed"],
       [order_id |-> 2, order_item_id |-> 3, order_date |-> <<2026, 1, 2>>,
        customer_id |-> 2, product_id |-> 1, order_status |-> "Completed"],
       [order_id |-> 3, order_item_id |-> 4, order_date |-> <<2026, 1, 3>>,
        customer_id |-> 1, product_id |-> 2, order_status |-> "Cancelled"] >>

\* arguments the update calls are made with
CustomerIds == {1, 2, 3}

Tiers == {"Bronze", "Silver"}

EffectiveDates == {<<2024, 3, 1>>, <<2024, 6, 15>>}

\* a key the left merge found no match for (surrogate keys start at 1)
NULL == 0

\* ------------------------------------------------------- sequence helpers

RECURSIVE Flatten(_)
Flatten(seqs) ==
    IF seqs = <<>> THEN <<>> ELSE Head(seqs) \o Flatten(Tail(seqs))

RECURSIVE MaxOf(_)
MaxOf(S) ==
    IF S = {} THEN 0
    ELSE LET x == CHOOSE v \in S : TRUE
             m == MaxOf(S \ {x})
         IN  IF x > m THEN x ELSE m

Keys(tbl) == {tbl[i].customer_key : i \in DOMAIN tbl}

\* ---------------------------------------------------------- dim_customer

\* mutant: the largest key in the table is handed out again
lastrowid_off_by_one(tbl) == MaxOf(Keys(tbl))

\* the rowid SQLite gives a row inserted without a customer_key: one more
\* than the largest in the table (cursor.lastrowid, used as customer_key)
lastrowid(tbl) == MaxOf(Keys(tbl)) + 1

\* mutant: the is_current filter is missing from the WHERE clause
current_records_any_version(tbl, customer_id) ==
    SelectSeq(tbl, LAMBDA r : r.customer_id = customer_id)

\* SELECT ... FROM dim_customer WHERE customer_id = ? AND is_current = 1
current_records(tbl, customer_id) ==
    SelectSeq(tbl, LAMBDA r : r.customer_id = customer_id /\ r.is_current = 1)

\* mutant: the UPDATE leaves is_current as it was
close_record_keeps_current(tbl, customer_key, yesterday) ==
    [i \in DOMAIN tbl |->
        IF tbl[i].customer_key = customer_key
        THEN [tbl[i] EXCEPT !.valid_to = yesterday, !.updated_at = "scd_update"]
        ELSE tbl[i]]

\* mutant: the old version is deleted instead of closed
close_record_deletes(tbl, customer_key, yesterday) ==
    SelectSeq(tbl, LAMBDA r : r.customer_key # customer_key)

\* mutant: the UPDATE has no WHERE clause and closes every current row
close_record_every_current(tbl, customer_key, yesterday) ==
    [i \in DOMAIN tbl |->
        IF tbl[i].is_current = 1
        THEN [tbl[i] EXCEPT !.valid_to = yesterday,
                            !.is_current = 0,
                            !.updated_at = "scd_update"]
        ELSE tbl[i]]

\* Step 2: UPDATE dim_customer SET valid_to = ?, is_current = 0, updated_at = ?
\*         WHERE customer_key = ?
close_record(tbl, customer_key, yesterday) ==
    [i \in DOMAIN tbl |->
        IF tbl[i].customer_key = customer_key
        THEN [tbl[i] EXCEPT !.valid_to = yesterday,
                            !.is_current = 0,
                            !.updated_at = "scd_update"]
        ELSE tbl[i]]

\* mutant: registration_date is bound to the effective date
new_record_resets_registration(current_record, new_tier, effective_date, new_key) ==
    [customer_key      |-> new_key,
     customer_id       |-> current_record.customer_id,
     first_name        |-> current_record.first_name,
     last_name         |-> current_record.last_name,
     email             |-> current_record.email,
     phone             |-> current_record.phone,
     city              |-> current_record.city,
     state             |-> current_record.state,
     customer_tier     |-> new_tier,
     registration_date |-> effective_date,
     valid_from        |-> effective_date,
     valid_to          |-> MaxDate,
     is_current        |-> 1,
     created_at        |-> "scd_update",
     updated_at        |-> "scd_update"]

\* mutant: the new version takes over the surrogate key of the row it replaces
new_record_takes_over_key(current_record, new_tier, effective_date, new_key) ==
    [customer_key      |-> current_record.customer_key,
     customer_id       |-> current_record.customer_id,
     first_name        |-> current_record.first_name,
     last_name         |-> current_record.last_name,
     email             |-> current_record.email,
     phone             |-> current_record.phone,
     city              |-> current_record.city,
     state             |-> current_record.state,
     customer_tier     |-> new_tier,
     registration_date |-> current_record.registration_date,
     valid_from        |-> effective_date,
     valid_to          |-> MaxDate,
     is_current        |-> 1,
     created_at        |-> "scd_update",
     updated_at        |-> "scd_update"]

\* Step 3: the row of INSERT INTO dim_customer (...) VALUES (...)
new_record(current_record, new_tier, effective_date, new_key) ==
    [customer_key      |-> new_key,
     customer_id       |-> current_record.customer_id,
     first_name        |-> current_record.first_name,
     last_name         |-> current_record.last_name,
     email             |-> current_record.email,
     phone             |-> current_record.phone,
     city              |-> current_record.city,
     state             |-> current_record.state,
     customer_tier     |-> new_tier,
     registration_date |-> current_record.registration_date,
     valid_from        |-> effective_date,
     valid_to          |-> MaxDate,
     is_current        |-> 1,
     created_at        |-> "scd_update",
     updated_at        |-> "scd_update"]

\* mutant: the comparison reads current_record[7] (state), not [8]
tier_unchanged_wrong_column(current_record, new_tier) ==
    current_record.state = new_tier

\* the tier comparison of line 112
tier_unchanged(current_record, new_tier) ==
    current_record.customer_tier = new_tier

\* mutant: the facts of the closed version are re-pointed at the new version
update_customer_tier_repoints_facts(conn, customer_id, new_tier, effective_date, insert_raises) ==
    LET tbl   == conn.dim_customer
        found == current_records(tbl, customer_id)
        done(table, facts, outcome, commit) ==
            [dim_customer |-> table, fact_sales |-> facts,
             outcome |-> outcome, commit |-> commit]
    IN  IF found = <<>>
        THEN done(tbl, conn.fact_sales, "not_found", FALSE)
        ELSE LET current_record == Head(found)
             IN  IF tier_unchanged(current_record, new_tier)
                 THEN done(tbl, conn.fact_sales, "unchanged", FALSE)
                 ELSE LET closed == close_record(tbl, current_record.customer_key,
                                                 yesterday_of(effective_date))
                          new_key == lastrowid(closed)
                          facts == [i \in DOMAIN conn.fact_sales |->
                                      IF conn.fact_sales[i].customer_key
                                         = current_record.customer_key
                                      THEN [conn.fact_sales[i]
                                              EXCEPT !.customer_key = new_key]
                                      ELSE conn.fact_sales[i]]
                      IN  IF insert_raises
                          THEN done(closed, conn.fact_sales, "raised", FALSE)
                          ELSE done(Append(closed,
                                           new_record(current_record, new_tier,
                                                      effective_date, new_key)),
                                    facts, "updated", TRUE)

\* SCDManager.update_customer_tier on conn, the tables as the connection sees
\* them. insert_raises: the INSERT of step 3 raises (sqlite3.Error). The result
\* is the tables after the call, what the call reported, and whether
\* conn.commit() was reached.
update_customer_tier(conn, customer_id, new_tier, effective_date, insert_raises) ==
    LET tbl   == conn.dim_customer
        found == current_records(tbl, customer_id)
        done(table, outcome, commit) ==
            [dim_customer |-> table, fact_sales |-> conn.fact_sales,
             outcome |-> outcome, commit |-> commit]
    IN  IF found = <<>>
        THEN done(tbl, "not_found", FALSE)
        ELSE LET current_record == Head(found)   \* cursor.fetchone()
             IN  IF tier_unchanged(current_record, new_tier)
                 THEN done(tbl, "unchanged", FALSE)
                 ELSE LET closed == close_record(tbl, current_record.customer_key,
                                                 yesterday_of(effective_date))
                      IN  IF insert_raises
                          THEN done(closed, "raised", FALSE)
                          ELSE done(Append(closed,
                                           new_record(current_record, new_tier,
                                                      effective_date,
                                                      lastrowid(closed))),
                                    "updated", TRUE)

\* mutant: valid_from is the day of the load instead of registration_date
initial_dim_customer_valid_from_today ==
    [i \in DOMAIN SourceCustomers |->
        LET c == SourceCustomers[i]
        IN  [customer_key      |-> i,
             customer_id       |-> c.customer_id,
             first_name        |-> c.first_name,
             last_name         |-> c.last_name,
             email             |-> c.email,
             phone             |-> c.phone,
             city              |-> c.city,
             state             |-> c.state,
             customer_tier     |-> c.customer_tier,
             registration_date |-> c.registration_date,
             valid_from        |-> <<2026, 2, 1>>,
             valid_to          |-> MaxDate,
             is_current        |-> 1,
             created_at        |-> "etl_load",
             updated_at        |-> "etl_load"]]

\* DataWarehouseETL.load_dim_customer: the rows built from the source
\* customers, keyed 1..n in source order
initial_dim_customer ==
    [i \in DOMAIN SourceCustomers |->
        LET c == SourceCustomers[i]
        IN  [customer_key      |-> i,
             customer_id       |-> c.customer_id,
             first_name        |-> c.first_name,
             last_name         |-> c.last_name,
             email             |-> c.email,
             phone             |-> c.phone,
             city              |-> c.city,
             state             |-> c.state,
             customer_tier     |-> c.customer_tier,
             registration_date |-> c.registration_date,
             valid_from        |-> c.registration_date,
             valid_to          |-> MaxDate,
             is_current        |-> 1,
             created_at        |-> "etl_load",
             updated_at        |-> "etl_load"]]

load_dim_customer(tbl) ==
    IF Len(tbl) > 0 THEN tbl ELSE initial_dim_customer

\* ------------------------------------------- the other dimension tables

\* the default arguments of load_dim_date
DefaultStartDate == <<2023, 1, 1>>

DefaultEndDate == <<2025, 12, 31>>

\* the dict appended for the date `current` of the while loop
date_row(current) ==
    LET text == strftime(current)
    IN  [date_key     |-> date_key_of(text),
         full_date    |-> text,
         year         |-> text[1],
         quarter      |-> (text[2] - 1) \div 3 + 1,
         month        |-> text[2],
         day_of_month |-> text[3],
         is_holiday   |-> 0,
         fiscal_year  |-> IF text[2] >= 7 THEN text[1] ELSE text[1] - 1]

\* mutant: the loop stops before the end date (while current < end)
load_dim_date_excludes_end(tbl, start_date, end_date) ==
    IF Len(tbl) > 0 THEN tbl
    ELSE LET start == strptime(start_date)
             end   == strptime(end_date)
         IN  [k \in 1..(end - start) |-> date_row(start + k - 1)]

\* DataWarehouseETL.load_dim_date: one row per day from start to end
load_dim_date(tbl, start_date, end_date) ==
    IF Len(tbl) > 0 THEN tbl
    ELSE LET start == strptime(start_date)
             end   == strptime(end_date)
         IN  [k \in 1..(end - start + 1) |-> date_row(start + k - 1)]

\* products p JOIN categories c ON p.category_id = c.category_id
products_join_categories ==
    Flatten([i \in DOMAIN SourceProducts |->
        LET p == SourceProducts[i]
            cs == SelectSeq(SourceCategories, LAMBDA c : c.category_id = p.category_id)
        IN  [j \in DOMAIN cs |->
                [product_id           |-> p.product_id,
                 product_name         |-> p.product_name,
                 category_id          |-> p.category_id,
                 category_name        |-> cs[j].category_name,
                 category_description |-> cs[j].description,
                 unit_price           |-> p.unit_price,
                 is_active            |-> p.is_active,
                 created_at           |-> "etl_load",
                 updated_at           |-> "etl_load"]]])

\* mutant: the "already loaded" guard is missing
load_dim_product_unguarded(tbl) ==
    LET df == products_join_categories
    IN  tbl \o [i \in DOMAIN df |-> [product_key |-> Len(tbl) + i] @@ df[i]]

\* DataWarehouseETL.load_dim_product: product_key is the key the table assigns
load_dim_product(tbl) ==
    IF Len(tbl) > 0 THEN tbl
    ELSE LET df == products_join_categories
         IN  [i \in DOMAIN df |-> [product_key |-> i] @@ df[i]]

\* mutant: the statuses are inserted in the order of their codes
load_dim_order_status_by_code(tbl) ==
    << [status_code |-> "CANCELLED", status_name |-> "Cancelled", is_final_state |-> 1],
       [status_code |-> "COMPLETED", status_name |-> "Completed", is_final_state |-> 1],
       [status_code |-> "PENDING",   status_name |-> "Pending",   is_final_state |-> 0],
       [status_code |-> "SHIPPED",   status_name |-> "Shipped",   is_final_state |-> 0] >>

\* DataWarehouseETL.load_dim_order_status: to_sql(if_exists='replace')
load_dim_order_status(tbl) ==
    << [status_code |-> "PENDING",   status_name |-> "Pending",   is_final_state |-> 0],
       [status_code |-> "SHIPPED",   status_name |-> "Shipped",   is_final_state |-> 0],
       [status_code |-> "COMPLETED", status_name |-> "Completed", is_final_state |-> 1],
       [status_code |-> "CANCELLED", status_name |-> "Cancelled", is_final_state |-> 1] >>

\* DataWarehouseETL.load_dim_payment_method: to_sql(if_exists='replace')
load_dim_payment_method(tbl) ==
    << [payment_method_code |-> "CC", payment_method_name |-> "Credit Card"],
       [payment_method_code |-> "DC", payment_method_name |-> "Debit Card"],
       [payment_method_code |-> "PP", payment_method_name |-> "PayPal"],
       [payment_method_code |-> "AP", payment_method_name |-> "Apple Pay"] >>

\* ------------------------------------------------------------ fact_sales

\* the CASE of the source query
payment_method(order_id) ==
    CASE order_id % 4 = 0 -> "Credit Card"
      [] order_id % 4 = 1 -> "Debit Card"
      [] order_id % 4 = 2 -> "PayPal"
      [] OTHER            -> "Apple Pay"

status_mapping == [Completed |-> 3, Pending |-> 1, Shipped |-> 2, Cancelled |-> 4]

payment_mapping ==
    ("Credit Card" :> 1) @@ ("Debit Card" :> 2) @@ ("PayPal" :> 3) @@ ("Apple Pay" :> 4)

\* df_source: orders JOIN order_items WHERE o.order_status = 'Completed'
source_query(source) ==
    LET completed == SelectSeq(source, LAMBDA o : o.order_status = "Completed")
    IN  [i \in DOMAIN completed |->
            completed[i] @@ [payment_method |-> payment_method(completed[i].order_id)]]

\* mutant: an inner merge, which drops the rows without a current version
merge_customer_inner(item, tbl) ==
    LET cur == current_records(tbl, item.customer_id)
    IN  [j \in DOMAIN cur |-> item @@ [customer_key |-> cur[j].customer_key]]

\* the rows one source row becomes in
\* df_source.merge(dim_customer WHERE is_current = 1, on='customer_id', how='left')
merge_customer(item, tbl) ==
    LET cur == current_records(tbl, item.customer_id)
    IN  IF cur = <<>>
        THEN << item @@ [customer_key |-> NULL] >>
        ELSE [j \in DOMAIN cur |-> item @@ [customer_key |-> cur[j].customer_key]]

\* the rows one row becomes in df_source.merge(dim_product, on='product_id', how='left')
merge_product(item, tbl) ==
    LET match == SelectSeq(tbl, LAMBDA p : p.product_id = item.product_id)
    IN  IF match = <<>>
        THEN << item @@ [product_key |-> NULL] >>
        ELSE [j \in DOMAIN match |-> item @@ [product_key |-> match[j].product_key]]

\* df_source[fact_columns], with the keys of steps 1, 4 and 5
fact_row(item) ==
    [date_key           |-> date_key_of(item.order_date),
     customer_key       |-> item.customer_key,
     product_key        |-> item.product_key,
     status_key         |-> status_mapping[item.order_status],
     payment_method_key |-> payment_mapping[item.payment_method],
     order_id           |-> item.order_id,
     order_item_id      |-> item.order_item_id]

\* DataWarehouseETL.load_fact_sales against the committed dimension tables
load_fact_sales(facts, source, customers, products) ==
    IF Len(facts) > 0 THEN facts
    ELSE LET df_source == source_query(source)
             with_customer == Flatten([i \in DOMAIN df_source |->
                                 merge_customer(df_source[i], customers)])
             with_product == Flatten([i \in DOMAIN with_customer |->
                                 merge_product(with_customer[i], products)])
         IN  [i \in DOMAIN with_product |-> fact_row(with_product[i])]

\* ----------------------------------------------------------------- state

NoCall == [op |-> "none", customer_id |-> 0, outcome |-> "none"]

Call(op) == [NoCall EXCEPT !.op = op]

\* the steps of run_full_etl, in the order of its try block
Steps ==
    << "create_warehouse_schema", "load_dim_date", "load_dim_customer",
       "load_dim_product", "load_dim_order_status", "load_dim_payment_method",
       "load_fact_sales", "verify_warehouse" >>

\* no run_full_etl has been started
NoRun == [pc |-> 0, log |-> <<>>, caught |-> "none", returned |-> FALSE]

\* no run_full_etl is under way
Idle == run.pc = 0

\* run_pipeline has not been called; data/ holds no output
NoPipeline ==
    [pc |-> "idle", season_year |-> 0, raw_data |-> <<>>, clean_data |-> <<>>,
     csv_path |-> "None", db_success |-> FALSE, phases |-> <<>>, raised |-> "none",
     error_logged |-> FALSE, escaped |-> FALSE, result |-> "none",
     csv_files |-> {}, player_totals |-> <<>>]

\* _handle_duplicates has been given no DataFrame
NoFrame == [df |-> <<>>, out |-> <<>>, applied |-> 0]

\* an SCDManager is connected to a warehouse whose tables are empty
Init ==
    /\ dim_customer = <<>>
    /\ db_dim_customer = <<>>
    /\ fact_sales = <<>>
    /\ last = NoCall
    /\ issued_keys = {}
    /\ aborted = FALSE
    /\ source_orders = SourceOrderItems
    /\ dim_date = <<>>
    /\ dim_product = <<>>
    /\ dim_order_status = <<>>
    /\ dim_payment_method = <<>>
    /\ run = NoRun
    /\ pipeline = NoPipeline
    /\ frame = NoFrame

\* the SCD connection holds uncommitted writes (SQLite then refuses writers on
\* other connections)
Pending == dim_customer # db_dim_customer

\* DataWarehouseETL.load_dim_customer, on the ETL's own connection
LoadDimCustomer ==
    /\ ~Pending
    /\ db_dim_customer' = load_dim_customer(db_dim_customer)
    /\ dim_customer' = db_dim_customer'
    /\ issued_keys' = issued_keys \cup Keys(db_dim_customer')
    /\ last' = Call("load_dim_customer")
    /\ UNCHANGED <<fact_sales, aborted, etl_vars, pipe_vars, frame_vars>>

\* DataWarehouseETL.load_fact_sales, on the ETL's own connection
LoadFactSales ==
    /\ ~Pending
    /\ fact_sales' = load_fact_sales(fact_sales, source_orders, db_dim_customer, dim_product)
    /\ last' = Call("load_fact_sales")
    /\ UNCHANGED <<dim_customer, db_dim_customer, issued_keys, aborted, etl_vars,
                   pipe_vars, frame_vars>>

\* SCDManager.close, then a new SCDManager: the uncommitted writes of the
\* closed connection are dropped
Reconnect ==
    /\ dim_customer' = db_dim_customer
    /\ last' = Call("reconnect")
    /\ UNCHANGED <<db_dim_customer, fact_sales, issued_keys, aborted, etl_vars,
                   pipe_vars, frame_vars>>

\* a call of SCDManager.update_customer_tier
UpdateCustomerTier(customer_id, new_tier, effective_date, insert_raises) ==
    LET r == update_customer_tier([dim_customer |-> dim_customer,
                                   fact_sales |-> fact_sales],
                                  customer_id, new_tier, effective_date,
                                  insert_raises)
    IN  /\ Len(r.dim_customer) <= MaxDimRows
        /\ dim_customer' = r.dim_customer
        /\ db_dim_customer' = IF r.commit THEN r.dim_customer ELSE db_dim_customer
        /\ fact_sales' = r.fact_sales
        /\ issued_keys' = issued_keys \cup Keys(r.dim_customer)
        /\ aborted' = (aborted \/ r.outcome = "raised")
        /\ last' = [op |-> "update_customer_tier", customer_id |-> customer_id,
                    outcome |-> r.outcome]
        /\ UNCHANGED <<etl_vars, pipe_vars, frame_vars>>

Update ==
    \E customer_id \in CustomerIds, new_tier \in Tiers,
       effective_date \in EffectiveDates, insert_raises \in BOOLEAN :
        UpdateCustomerTier(customer_id, new_tier, effective_date, insert_raises)

Next ==
    \/ LoadDimCustomer
    \/ LoadFactSales
    \/ Reconnect
    \/ Update

Spec == Init /\ [][Next]_vars

\* ------------------------------------------------------------ run_full_etl

\* dim_customer tables an earlier session has left in data_warehouse.db:
\* never loaded; loaded and customer 1 promoted; loaded, an update of
\* customer 1 raised after its close, and the next update committed the close
ExistingWarehouses ==
    LET conn(tbl) == [dim_customer |-> tbl, fact_sales |-> <<>>]
        promoted == update_customer_tier(conn(initial_dim_customer), 1, "Silver",
                                         <<2024, 6, 15>>, FALSE).dim_customer
        orphaned == update_customer_tier(conn(initial_dim_customer), 1, "Silver",
                                         <<2024, 3, 1>>, TRUE).dim_customer
        committed == update_customer_tier(conn(orphaned), 2, "Bronze",
                                          <<2024, 6, 15>>, FALSE).dim_customer
    IN  { [dim_customer |-> <<>>, aborted |-> FALSE],
          [dim_customer |-> promoted, aborted |-> FALSE],
          [dim_customer |-> committed, aborted |-> TRUE] }

\* the arguments load_dim_date is called with: its defaults, a short range
\* over a leap day, or a single day
DateRanges ==
    { <<DefaultStartDate, DefaultEndDate>>,
      <<<<2024, 2, 27>>, <<2024, 3, 2>>>>,
      <<<<2025, 12, 31>>, <<2025, 12, 31>>>> }

\* the tables of data_warehouse.db
Warehouse ==
    [dim_date           |-> dim_date,
     dim_customer       |-> db_dim_customer,
     dim_product        |-> dim_product,
     dim_order_status   |-> dim_order_status,
     dim_payment_method |-> dim_payment_method,
     fact_sales         |-> fact_sales]

\* create_warehouse_schema: executes data_modeling.sql, which creates the
\* tables, indexes and views the warehouse lacks and leaves rows alone
create_warehouse_schema(wh) == wh

\* verify_warehouse: SELECT COUNT(*) of each table
verify_warehouse(wh) == wh

\* the call a step of run_full_etl makes (load_dim_date with its defaults)
call(step, wh, source, range) ==
    CASE step = "create_warehouse_schema" -> create_warehouse_schema(wh)
      [] step = "load_dim_date" ->
            [wh EXCEPT !.dim_date = load_dim_date(@, range[1], range[2])]
      [] step = "load_dim_customer" ->
            [wh EXCEPT !.dim_customer = load_dim_customer(@)]
      [] step = "load_dim_product" ->
            [wh EXCEPT !.dim_product = load_dim_product(@)]
      [] step = "load_dim_order_status" ->
            [wh EXCEPT !.dim_order_status = load_dim_order_status(@)]
      [] step = "load_dim_payment_method" ->
            [wh EXCEPT !.dim_payment_method = load_dim_payment_method(@)]
      [] step = "load_fact_sales" ->
            [wh EXCEPT !.fact_sales = load_fact_sales(@, source, wh.dim_customer,
                                                      wh.dim_product)]
      [] step = "verify_warehouse" -> verify_warehouse(wh)

\* the warehouse becomes wh (the ETL connection commits what it writes)
Store(wh) ==
    /\ dim_date' = wh.dim_date
    /\ db_dim_customer' = wh.dim_customer
    /\ dim_customer' = wh.dim_customer
    /\ issued_keys' = issued_keys \cup Keys(wh.dim_customer)
    /\ dim_product' = wh.dim_product
    /\ dim_order_status' = wh.dim_order_status
    /\ dim_payment_method' = wh.dim_payment_method
    /\ fact_sales' = wh.fact_sales

\* mutant: after a step the run goes on two steps further
next_pc_skips(pc) == IF pc + 2 > Len(Steps) THEN 0 ELSE pc + 2

\* the step after step pc of the try block; 0 when the block is left
next_pc(pc) == IF pc = Len(Steps) THEN 0 ELSE pc + 1

\* mutant: the handler runs the remaining steps after the one that raised
except_Exception_resumes(r) ==
    [r EXCEPT !.pc = next_pc(@), !.caught = Steps[r.pc],
              !.returned = (next_pc(r.pc) = 0)]

\* except Exception as e: print, traceback.print_exc(), and the method returns
except_Exception(r) ==
    [r EXCEPT !.pc = 0, !.caught = Steps[r.pc], !.returned = TRUE]

\* a DataWarehouseETL is connected to a source and to a warehouse
InitETL ==
    /\ \E w \in ExistingWarehouses :
          /\ db_dim_customer = w.dim_customer
          /\ dim_customer = w.dim_customer
          /\ issued_keys = Keys(w.dim_customer)
          /\ aborted = w.aborted
    /\ source_orders \in {SourceOrderItems, SourceOrderItemsLate}
    /\ fact_sales = <<>>
    /\ last = NoCall
    /\ dim_date = <<>>
    /\ dim_product = <<>>
    /\ dim_order_status = <<>>
    /\ dim_payment_method = <<>>
    /\ run = NoRun
    /\ pipeline = NoPipeline
    /\ frame = NoFrame

\* run_full_etl is called
RunFullEtl ==
    /\ Idle
    /\ run' = [pc |-> 1, log |-> <<>>, caught |-> "none", returned |-> FALSE]
    /\ last' = Call("run_full_etl")
    /\ UNCHANGED <<dim_customer, db_dim_customer, fact_sales, issued_keys, aborted,
                   source_orders, dim_date, dim_product, dim_order_status,
                   dim_payment_method, pipe_vars, frame_vars>>

\* the step run_full_etl is at runs to completion
StepCompletes ==
    /\ ~Idle
    /\ Store(call(Steps[run.pc], Warehouse, source_orders,
                  <<DefaultStartDate, DefaultEndDate>>))
    /\ run' = [run EXCEPT !.pc = next_pc(@), !.log = Append(@, Steps[run.pc]),
                          !.returned = (next_pc(run.pc) = 0)]
    /\ UNCHANGED <<last, aborted, source_orders, pipe_vars, frame_vars>>

\* the step run_full_etl is at raises before it has written
StepRaises ==
    /\ ~Idle
    /\ run' = except_Exception(run)
    /\ UNCHANGED <<scd_vars, source_orders, dim_date, dim_product,
                   dim_order_status, dim_payment_method, pipe_vars, frame_vars>>

\* a loader is called on its own
CallLoader(step, range) ==
    LET wh == call(step, Warehouse, source_orders, range)
    IN  /\ Idle
        /\ Store(wh)
        /\ last' = [op |-> step, customer_id |-> 0,
                    outcome |-> IF wh = Warehouse THEN "skipped" ELSE "loaded"]
        /\ UNCHANGED <<aborted, source_orders, run, pipe_vars, frame_vars>>

Loaders == {"load_dim_date", "load_dim_customer", "load_dim_product", "load_fact_sales"}

Load == \E step \in Loaders, range \in DateRanges : CallLoader(step, range)

NextETL ==
    \/ RunFullEtl
    \/ StepCompletes
    \/ StepRaises
    \/ Load

SpecETL == InitETL /\ [][NextETL]_vars

\* ------------------------------------------------- nba_pipeline run_pipeline

\* the seasons run_pipeline is called for
SeasonYears == {2024, 2025}

\* player names in the order groupby('player') sorts its groups
PlayerNames == << "Adams", "Brown", "Curry" >>

\* a dict of _parse_player_row (a stat's text is written as the number it spells)
player_row(player, team, games, pts, season_year) ==
    [player |-> player, team_name_abbr |-> team, games |-> games, pts |-> pts,
     season_year |-> season_year]

\* what scrape_season_totals returns: [] when the page, the table or its body
\* is missing, else the parsed rows (a traded player has one row per team
\* and, on most pages, a TOT row)
ScrapeResults(season_year) ==
    { <<>>,
      << player_row("Curry", "GSW", 70, 1800, season_year) >>,
      << player_row("Curry", "GSW", 70, 1800, season_year),
         player_row("Brown", "TOT", 60, 900, season_year),
         player_row("Brown", "BOS", 40, 700, season_year),
         player_row("Brown", "LAL", 20, 200, season_year) >>,
      << player_row("Brown", "BOS", 40, 700, season_year),
         player_row("Adams", "HOU", 30, 150, season_year),
         player_row("Adams", "MEM", 25, 100, season_year) >> }

\* df.rename(columns=self.column_mapping)
_standardize_columns(df) ==
    [i \in DOMAIN df |->
        [player |-> df[i].player, team_id |-> df[i].team_name_abbr, g |-> df[i].games,
         pts |-> df[i].pts, season_year |-> df[i].season_year]]

\* keep_row: the TOT rows of the group if it has any, else its first row
keep_row(group) ==
    LET tot_rows == SelectSeq(group, LAMBDA r : r.team_id = "TOT")
    IN  IF Len(tot_rows) > 0 THEN tot_rows ELSE SubSeq(group, 1, 1)

\* NBADataTransformer._handle_duplicates
_handle_duplicates(df) ==
    LET duplicates == SelectSeq(df, LAMBDA r :
                          Cardinality({i \in DOMAIN df : df[i].player = r.player}) > 1)
        groups == SelectSeq(PlayerNames, LAMBDA name :
                          \E i \in DOMAIN df : df[i].player = name)
    IN  IF Len(duplicates) > 0
        THEN Flatten([k \in DOMAIN groups |->
                 keep_row(SelectSeq(df, LAMBDA r : r.player = groups[k]))])
        ELSE df

\* NBADataTransformer.transform (the type conversions and the per-game
\* columns, which keep the rows and their order, are left out)
transform(raw_data) ==
    IF raw_data = <<>> THEN <<>>
    ELSE _handle_duplicates(_standardize_columns(raw_data))

\* a call of run_pipeline(season_year) enters its try block
enter_pipeline(p, season_year) ==
    [NoPipeline EXCEPT !.pc = "extract", !.season_year = season_year,
                       !.csv_files = p.csv_files, !.player_totals = p.player_totals]

\* mutant: the handler logs the error and re-raises it
pipeline_except_reraises(p) ==
    [p EXCEPT !.pc = "idle", !.raised = p.pc, !.error_logged = TRUE, !.escaped = TRUE]

\* except Exception as e: logger.error(...); return False
pipeline_except(p) ==
    [p EXCEPT !.pc = "idle", !.raised = p.pc, !.error_logged = TRUE, !.result = "False"]

\* logger.error(...); return False of the two emptiness checks
fail(p) == [p EXCEPT !.pc = "idle", !.error_logged = TRUE, !.result = "False"]

\* mutant: the check of raw_data is missing
extract_unchecked(p, raw_data) ==
    [p EXCEPT !.raw_data = raw_data, !.phases = Append(@, "extract"),
              !.pc = "transform"]

\* EXTRACT PHASE
extract(p, raw_data) ==
    LET q == [p EXCEPT !.raw_data = raw_data, !.phases = Append(@, "extract")]
    IN  IF raw_data = <<>> THEN fail(q) ELSE [q EXCEPT !.pc = "transform"]

\* TRANSFORM PHASE
transform_phase(p) ==
    LET q == [p EXCEPT !.clean_data = transform(p.raw_data),
                       !.phases = Append(@, "transform")]
    IN  IF q.clean_data = <<>> THEN fail(q) ELSE [q EXCEPT !.pc = "load_csv"]

\* LOAD PHASE, first half: load_to_csv returns the path, or None when the
\* write raised (it catches its own errors)
load_csv(p, csv_saved) ==
    [p EXCEPT !.csv_path = IF csv_saved THEN "filepath" ELSE "None",
              !.csv_files = IF csv_saved THEN @ \cup {p.season_year} ELSE @,
              !.phases = Append(@, "load_csv"),
              !.pc = "load_sqlite"]

\* LOAD PHASE, second half, and SUMMARY: load_to_sqlite returns True, or False
\* when the write raised; 'Status: SUCCESS' is logged and run_pipeline
\* returns True
load_sqlite(p, db_saved) ==
    [p EXCEPT !.db_success = db_saved,
              !.player_totals = IF db_saved THEN p.clean_data ELSE @,
              !.phases = Append(@, "load_sqlite"),
              !.pc = "idle",
              !.result = "True"]

InitPipeline ==
    /\ dim_customer = <<>>
    /\ db_dim_customer = <<>>
    /\ fact_sales = <<>>
    /\ last = NoCall
    /\ issued_keys = {}
    /\ aborted = FALSE
    /\ source_orders = SourceOrderItems
    /\ dim_date = <<>>
    /\ dim_product = <<>>
    /\ dim_order_status = <<>>
    /\ dim_payment_method = <<>>
    /\ run = NoRun
    /\ pipeline = NoPipeline
    /\ frame = NoFrame

RunPipeline ==
    /\ pipeline.pc = "idle"
    /\ \E season_year \in SeasonYears :
          pipeline' = enter_pipeline(pipeline, season_year)
    /\ UNCHANGED <<scd_vars, etl_vars, frame_vars>>

Extract ==
    /\ pipeline.pc = "extract"
    /\ \E raw_data \in ScrapeResults(pipeline.season_year) :
          pipeline' = extract(pipeline, raw_data)
    /\ UNCHANGED <<scd_vars, etl_vars, frame_vars>>

Transform ==
    /\ pipeline.pc = "transform"
    /\ pipeline' = transform_phase(pipeline)
    /\ UNCHANGED <<scd_vars, etl_vars, frame_vars>>

LoadCsv ==
    /\ pipeline.pc = "load_csv"
    /\ \E csv_saved \in BOOLEAN : pipeline' = load_csv(pipeline, csv_saved)
    /\ UNCHANGED <<scd_vars, etl_vars, frame_vars>>

LoadSqlite ==
    /\ pipeline.pc = "load_sqlite"
    /\ \E db_saved \in BOOLEAN : pipeline' = load_sqlite(pipeline, db_saved)
    /\ UNCHANGED <<scd_vars, etl_vars, frame_vars>>

\* the phase run_pipeline is in raises an Exception
PhaseRaises ==
    /\ pipeline.pc # "idle"
    /\ pipeline' = pipeline_except(pipeline)
    /\ UNCHANGED <<scd_vars, etl_vars, frame_vars>>

NextPipeline ==
    \/ RunPipeline
    \/ Extract
    \/ Transform
    \/ LoadCsv
    \/ LoadSqlite
    \/ PhaseRaises

SpecPipeline == InitPipeline /\ [][NextPipeline]_vars

\* ------------------------------------ NBADataTransformer._handle_duplicates

\* the rows of the DataFrames: a player and the team of the row
FrameRows == [player : {"Adams", "Brown"}, team_id : {"TOT", "BOS"}]

\* the DataFrames of at most MaxFrameRows rows
Frames == UNION {[1..n -> FrameRows] : n \in 0..MaxFrameRows}

InitTransformer ==
    /\ dim_customer = <<>>
    /\ db_dim_customer = <<>>
    /\ fact_sales = <<>>
    /\ last = NoCall
    /\ issued_keys = {}
    /\ aborted = FALSE
    /\ source_orders = SourceOrderItems
    /\ dim_date = <<>>
    /\ dim_product = <<>>
    /\ dim_order_status = <<>>
    /\ dim_payment_method = <<>>
    /\ run = NoRun
    /\ pipeline = NoPipeline
    /\ \E df \in Frames : frame = [df |-> df, out |-> <<>>, applied |-> 0]

\* _handle_duplicates is applied to the DataFrame, then to what it returned
HandleDuplicates ==
    /\ frame.applied < 2
    /\ frame' = [frame EXCEPT
                    !.out = _handle_duplicates(IF frame.applied = 0 THEN frame.df ELSE @),
                    !.applied = @ + 1]
    /\ UNCHANGED <<scd_vars, etl_vars, pipe_vars>>

NextTransformer == HandleDuplicates

SpecTransformer == InitTransformer /\ [][NextTransformer]_vars

\* ---------------------------------------------------------------- claims

\* the customer_ids dim_customer has rows for
LoadedIds(tbl) == {tbl[i].customer_id : i \in DOMAIN tbl}

\* the positions of customer_id's rows, and of its current rows
VersionsOf(tbl, customer_id) ==
    {i \in DOMAIN tbl : tbl[i].customer_id = customer_id}

CurrentOf(tbl, customer_id) ==
    {i \in VersionsOf(tbl, customer_id) : tbl[i].is_current = 1}

\* a call with new_tier finds a current row of customer_id with another tier
ChangesTier(tbl, customer_id, new_tier) ==
    \E i \in CurrentOf(tbl, customer_id) : tbl[i].customer_tier # new_tier

\* text comparison of two dates
DateLT(a, b) ==
    \/ a[1] < b[1]
    \/ a[1] = b[1] /\ a[2] < b[2]
    \/ a[1] = b[1] /\ a[2] = b[2] /\ a[3] < b[3]

DateLE(a, b) == a = b \/ DateLT(a, b)

LeapYear(y) == (y % 4 = 0 /\ y % 100 # 0) \/ y % 400 = 0

DaysIn(y, m) ==
    IF m = 2 THEN (IF LeapYear(y) THEN 29 ELSE 28)
    ELSE IF m \in {4, 6, 9, 11} THEN 30 ELSE 31

IsDate(a) == a[2] \in 1..12 /\ a[3] \in 1..DaysIn(a[1], a[2])

\* a is the calendar day before b
IsDayBefore(a, b) ==
    /\ IsDate(a)
    /\ b = IF a[3] < DaysIn(a[1], a[2]) THEN <<a[1], a[2], a[3] + 1>>
           ELSE IF a[2] < 12 THEN <<a[1], a[2] + 1, 1>>
           ELSE <<a[1] + 1, 1, 1>>

\* the step is a call of update_customer_tier for customer_id
CallFor(customer_id) ==
    last'.op = "update_customer_tier" /\ last'.customer_id = customer_id

\* the tier of customer_id's current row differs before and after the step
TierChanged(customer_id) ==
    \E i \in CurrentOf(dim_customer, customer_id),
       j \in CurrentOf(dim_customer', customer_id) :
        dim_customer[i].customer_tier # dim_customer'[j].customer_tier

\* C1: as long as every update_customer_tier call has run to completion, each
\* customer_id of the initial load has exactly one row with is_current = 1, in
\* the connection's view and in the committed table.
C1_ExactlyOneCurrent ==
    ~aborted =>
        \A c \in LoadedIds(dim_customer) :
            /\ Cardinality(CurrentOf(dim_customer, c)) = 1
            /\ Cardinality(CurrentOf(db_dim_customer, c)) = 1

\* two tier changes of one customer and one of another, all completed
C1_Witness ==
    /\ ~aborted
    /\ \E c \in LoadedIds(dim_customer) :
          Cardinality(VersionsOf(dim_customer, c)) >= 2
    /\ \E c \in LoadedIds(dim_customer) :
          Cardinality(VersionsOf(dim_customer, c)) >= 3

\* the version of customer_id that follows version i in valid_from order
NextByValidFrom(tbl, i) ==
    {j \in VersionsOf(tbl, tbl[i].customer_id) :
        /\ DateLT(tbl[i].valid_from, tbl[j].valid_from)
        /\ \A k \in VersionsOf(tbl, tbl[i].customer_id) :
              DateLT(tbl[i].valid_from, tbl[k].valid_from)
                  => DateLE(tbl[j].valid_from, tbl[k].valid_from)}

NextInserted(tbl, i) ==
    {j \in VersionsOf(tbl, tbl[i].customer_id) :
        /\ j > i
        /\ \A k \in VersionsOf(tbl, tbl[i].customer_id) : k > i => j <= k}

C3_CloseInsertAtomic ==
    /\ \A c \in LoadedIds(dim_customer) : CurrentOf(dim_customer, c) # {}
    /\ \A c \in LoadedIds(db_dim_customer) : CurrentOf(db_dim_customer, c) # {}

\* C4: a call whose new tier is the tier of the customer's current row inserts
\* no row and changes no column of any row.
C4_SameTierIsNoOp ==
    [][\A c \in CustomerIds, t \in Tiers, d \in EffectiveDates, f \in BOOLEAN :
          ( /\ CallFor(c)
            /\ \E i \in CurrentOf(dim_customer, c) :
                  dim_customer[i].customer_tier = t
            /\ UpdateCustomerTier(c, t, d, f) )
          => /\ dim_customer' = dim_customer
             /\ db_dim_customer' = db_dim_customer]_vars

\* a same-tier call made on a customer that already has a closed version
C4_Witness ==
    /\ last.op = "update_customer_tier"
    /\ last.outcome = "unchanged"
    /\ Cardinality(VersionsOf(dim_customer, last.customer_id)) >= 2

\* C5: a call for a customer_id without a current row reports it and changes
\* nothing.
C5_NotFoundNoMutation ==
    [][\A c \in CustomerIds, t \in Tiers, d \in EffectiveDates, f \in BOOLEAN :
          ( /\ CallFor(c)
            /\ CurrentOf(dim_customer, c) = {}
            /\ UpdateCustomerTier(c, t, d, f) )
          => /\ dim_customer' = dim_customer
             /\ db_dim_customer' = db_dim_customer
             /\ last'.outcome = "not_found"]_vars

\* a call for a customer whose versions are all closed
C5_Witness ==
    /\ last.op = "update_customer_tier"
    /\ last.outcome = "not_found"
    /\ VersionsOf(dim_customer, last.customer_id) # {}
    /\ CurrentOf(dim_customer, last.customer_id) = {}

\* C6: a completed tier change leaves the version that was current with
\* valid_to = the calendar day before the effective date and is_current = 0,
\* and with its customer_key, customer_id, customer_tier and valid_from.
C6_OldVersionClosed ==
    [][\A c \in CustomerIds, t \in Tiers, d \in EffectiveDates :
          ( /\ CallFor(c)
            /\ ChangesTier(dim_customer, c, t)
            /\ UpdateCustomerTier(c, t, d, FALSE) )
          => \A i \in CurrentOf(dim_customer, c) :
                /\ i \in DOMAIN dim_customer'
                /\ IsDayBefore(dim_customer'[i].valid_to, d)
                /\ dim_customer'[i].is_current = 0
                /\ dim_customer'[i].customer_key = dim_customer[i].customer_key
                /\ dim_customer'[i].customer_id = dim_customer[i].customer_id
                /\ dim_customer'[i].customer_tier = dim_customer[i].customer_tier
                /\ dim_customer'[i].valid_from = dim_customer[i].valid_from]_vars

\* a version closed on a leap day by a completed change effective 2024-03-01
C6_Witness ==
    /\ last.op = "update_customer_tier"
    /\ last.outcome = "updated"
    /\ \E i \in VersionsOf(dim_customer, last.customer_id) :
          /\ dim_customer[i].is_current = 0
          /\ dim_customer[i].valid_to = <<2024, 2, 29>>
          /\ \E j \in NextInserted(dim_customer, i) : j = Len(dim_customer)

\* C7: a completed tier change inserts exactly one row: the new tier, valid
\* from the effective date to 9999-12-31, current, every other descriptive
\* attribute copied from the version that was current.
C7_NewVersionInserted ==
    [][\A c \in CustomerIds, t \in Tiers, d \in EffectiveDates :
          ( /\ CallFor(c)
            /\ ChangesTier(dim_customer, c, t)
            /\ UpdateCustomerTier(c, t, d, FALSE) )
          => /\ Len(dim_customer') = Len(dim_customer) + 1
             /\ \A i \in DOMAIN dim_customer :
                   dim_customer'[i].customer_key = dim_customer[i].customer_key
             /\ LET new == dim_customer'[Len(dim_customer')]
                IN  /\ new.customer_key \notin Keys(dim_customer)
                    /\ new.customer_tier = t
                    /\ new.valid_from = d
                    /\ new.valid_to = <<9999, 12, 31>>
                    /\ new.is_current = 1
                    /\ \A i \in CurrentOf(dim_customer, c) :
                          /\ new.customer_id = dim_customer[i].customer_id
                          /\ new.first_name = dim_customer[i].first_name
                          /\ new.last_name = dim_customer[i].last_name
                          /\ new.email = dim_customer[i].email
                          /\ new.phone = dim_customer[i].phone
                          /\ new.city = dim_customer[i].city
                          /\ new.state = dim_customer[i].state
                          /\ new.registration_date
                                = dim_customer[i].registration_date]_vars

\* customer 1 has just been moved from Bronze to Silver, effective 2024-06-15
C7_Witness ==
    /\ last = [op |-> "update_customer_tier", customer_id |-> 1,
               outcome |-> "updated"]
    /\ Len(dim_customer) = Len(SourceCustomers) + 1
    /\ dim_customer[Len(dim_customer)].customer_tier = "Silver"
    /\ dim_customer[Len(dim_customer)].valid_from = <<2024, 6, 15>>
    /\ dim_customer[1].valid_to = <<2024, 6, 14>>

\* C8: no update_customer_tier call changes fact_sales: the same rows, in
\* number and in every column.
C8_FactsUnchanged ==
    [][(\E c \in CustomerIds : CallFor(c)) => fact_sales' = fact_sales]_vars

\* a completed change closed a version that a loaded fact row references
C8_Witness ==
    /\ last.op = "update_customer_tier"
    /\ last.outcome = "updated"
    /\ \E n \in DOMAIN fact_sales, i \in DOMAIN dim_customer :
          /\ fact_sales[n].customer_key = dim_customer[i].customer_key
          /\ dim_customer[i].customer_id = last.customer_id
          /\ dim_customer[i].is_current = 0

\* C9: no call changes the customer_key of an existing row, and the key of an
\* inserted row is one no dim_customer row has had before; keys are distinct.
C9_KeysImmutableNeverReused ==
    [][(\E c \in CustomerIds : CallFor(c))
          => /\ Len(dim_customer') >= Len(dim_customer)
             /\ \A i \in DOMAIN dim_customer :
                   dim_customer'[i].customer_key = dim_customer[i].customer_key
             /\ \A i \in DOMAIN dim_customer' \ DOMAIN dim_customer :
                   dim_customer'[i].customer_key \notin issued_keys
             /\ \A i, j \in DOMAIN dim_customer' :
                   dim_customer'[i].customer_key = dim_customer'[j].customer_key
                       => i = j]_vars

\* a second key has been issued by update calls
C9_Witness ==
    /\ last.op = "update_customer_tier"
    /\ last.outcome = "updated"
    /\ Cardinality(issued_keys) >= Len(SourceCustomers) + 2
    /\ Cardinality(Keys(dim_customer)) = Len(dim_customer)

\* C10: the row count of dim_customer never decreases; an update call adds
\* exactly one row when it completes a tier change and none otherwise, and
\* every row present before the call is present after it.
C10_RowsNeverDeleted ==
    [][/\ Len(dim_customer') >= Len(dim_customer)
       /\ Len(db_dim_customer') >= Len(db_dim_customer)
       /\ \A c \in CustomerIds :
             CallFor(c)
             => /\ Len(dim_customer')
                     = Len(dim_customer) + (IF TierChanged(c) THEN 1 ELSE 0)
                /\ Keys(dim_customer) \subseteq Keys(dim_customer')]_vars

\* a call raised after the close: no row added, none lost
C10_Witness ==
    /\ last.op = "update_customer_tier"
    /\ last.outcome = "raised"
    /\ Len(dim_customer) > Len(SourceCustomers)

\* the source row a fact row was built from
SourceItemOf(fact) ==
    CHOOSE o \in {source_orders[k] : k \in DOMAIN source_orders} :
        o.order_item_id = fact.order_item_id

\* C11: every fact row that load_fact_sales loads references the dim_customer
\* version of the order's customer that was valid at the order's order_date
\* (stated for loads into a loaded dim_customer, in runs where no call raised).
C11_FactReferencesVersionAtOrderDate ==
    [][( /\ last'.op = "load_fact_sales"
         /\ fact_sales = <<>>
         /\ db_dim_customer # <<>>
         /\ ~aborted )
       => \A n \in DOMAIN fact_sales' :
             LET o == SourceItemOf(fact_sales'[n])
             IN  \E i \in DOMAIN db_dim_customer :
                    /\ db_dim_customer[i].customer_key = fact_sales'[n].customer_key
                    /\ db_dim_customer[i].customer_id = o.customer_id
                    /\ DateLE(db_dim_customer[i].valid_from, o.order_date)
                    /\ DateLE(o.order_date, db_dim_customer[i].valid_to)]_vars

\* C14: every non-null customer_key of fact_sales identifies exactly one
\* dim_customer row, in the connection's view and in the committed table, and
\* that row has the customer_id of the order the fact row was loaded from.
C14_FactReferencesStayValid ==
    \A n \in DOMAIN fact_sales :
        fact_sales[n].customer_key # NULL
        => \A tbl \in {dim_customer, db_dim_customer} :
              /\ Cardinality({i \in DOMAIN tbl :
                    tbl[i].customer_key = fact_sales[n].customer_key}) = 1
              /\ \A i \in DOMAIN tbl :
                    tbl[i].customer_key = fact_sales[n].customer_key
                    => tbl[i].customer_id = SourceItemOf(fact_sales[n]).customer_id

\* a fact row references a version that two later tier changes left behind
C14_Witness ==
    \E n \in DOMAIN fact_sales, i \in DOMAIN dim_customer :
        /\ fact_sales[n].customer_key = dim_customer[i].customer_key
        /\ dim_customer[i].is_current = 0
        /\ Cardinality(VersionsOf(dim_customer, dim_customer[i].customer_id)) >= 3

\* the dates the point-in-time question is asked for
ProbeDates ==
    {<<2024, 2, 29>>, <<2024, 3, 1>>, <<2024, 4, 1>>, <<2024, 6, 14>>,
     <<2024, 6, 15>>, <<2024, 7, 1>>}

\* the rows of customer_id with date BETWEEN valid_from AND valid_to
VersionsAt(tbl, customer_id, date) ==
    {i \in VersionsOf(tbl, customer_id) :
        DateLE(tbl[i].valid_from, date) /\ DateLE(date, tbl[i].valid_to)}

\* C15: for every date on or after the valid_from of a customer's first row,
\* exactly one row of the customer has date BETWEEN valid_from AND valid_to
\* (stated for the runs in which no call has raised, and for the customers
\* none of whose versions begins before the first one).
C15_PointInTimeUnambiguous ==
    ~aborted =>
        \A c \in LoadedIds(dim_customer), date \in ProbeDates :
            LET first == CHOOSE i \in VersionsOf(dim_customer, c) :
                            \A j \in VersionsOf(dim_customer, c) : i <= j
            IN  ( /\ \A j \in VersionsOf(dim_customer, c) :
                        DateLE(dim_customer[first].valid_from, dim_customer[j].valid_from)
                  /\ DateLE(dim_customer[first].valid_from, date) )
                => Cardinality(VersionsAt(dim_customer, c, date)) = 1

\* a step of the model in which load_fact_sales ran to completion, called on
\* its own or as a step of run_full_etl
FactLoadRan ==
    \/ Idle /\ Idle' /\ last'.op = "load_fact_sales"
    \/ ~Idle /\ Steps[run.pc] = "load_fact_sales"
             /\ run'.log = Append(run.log, "load_fact_sales")

\* the fact rows loaded for a source row
FactsOf(facts, item) ==
    {n \in DOMAIN facts : facts[n].order_item_id = item.order_item_id}

\* key is the key_field of the row of tbl that passes `matches`, or null if
\* no row does
KeyOrNull(key, tbl, key_field, matches(_)) ==
    IF \E i \in DOMAIN tbl : matches(tbl[i])
    THEN \E i \in DOMAIN tbl : matches(tbl[i]) /\ tbl[i][key_field] = key
    ELSE key = NULL

\* C12: load_fact_sales run on an empty fact_sales inserts exactly one row for
\* each order item of a Completed order and none for the other orders; the
\* row's customer_key (product_key) is the key of the customer's current
\* dim_customer row (of the product's dim_product row), or null when the
\* dimension has no such row.
C12_OneFactPerCompletedItem ==
    [][(FactLoadRan /\ fact_sales = <<>>)
       => /\ \A k \in DOMAIN source_orders :
                Cardinality(FactsOf(fact_sales', source_orders[k]))
                    = IF source_orders[k].order_status = "Completed" THEN 1 ELSE 0
          /\ \A n \in DOMAIN fact_sales' :
                \E k \in DOMAIN source_orders :
                    LET item == source_orders[k]
                    IN  /\ fact_sales'[n].order_item_id = item.order_item_id
                        /\ fact_sales'[n].order_id = item.order_id
                        /\ KeyOrNull(fact_sales'[n].customer_key, db_dim_customer,
                                     "customer_key",
                                     LAMBDA r : r.customer_id = item.customer_id
                                                /\ r.is_current = 1)
                        /\ KeyOrNull(fact_sales'[n].product_key, dim_product,
                                     "product_key",
                                     LAMBDA r : r.product_id = item.product_id)]_vars

\* a load of the three Completed items of the 2026 source gave one row a null
\* customer_key beside a product_key, and a row of another order a customer_key
C12_Witness ==
    /\ last.op = "load_fact_sales"
    /\ last.outcome = "loaded"
    /\ \E n, m \in DOMAIN fact_sales :
          /\ fact_sales[n].customer_key = NULL
          /\ fact_sales[n].product_key # NULL
          /\ fact_sales[m].customer_key # NULL
          /\ fact_sales[n].order_id # fact_sales[m].order_id
    /\ Len(fact_sales) = 3

\* C13: every fact row that the load_fact_sales step of run_full_etl loads
\* has the date_key of a dim_date row (dim_date being what load_dim_date
\* loads with its default arguments, as run_full_etl calls it).
C13_DateKeyInDimDate ==
    [][( /\ ~Idle
         /\ Steps[run.pc] = "load_fact_sales"
         /\ run'.log = Append(run.log, "load_fact_sales")
         /\ fact_sales = <<>>
         /\ dim_date = load_dim_date(<<>>, DefaultStartDate, DefaultEndDate) )
       => \A n \in DOMAIN fact_sales' :
             \E i \in DOMAIN dim_date :
                dim_date[i].date_key = fact_sales'[n].date_key]_vars

\* a step of the model in which run_full_etl caught an exception
StepRaised == ~Idle /\ run'.caught # "none"

\* C17: when a step of run_full_etl raises, the exception is caught and the
\* method returns (it is not propagated), the steps completed are the ones
\* before the raising step, each once, the tables stay as the earlier steps
\* left them, and nothing more is executed or retried for that run.
C17_RaiseEndsRunKeepsRows ==
    [][ /\ StepRaised
           => /\ run'.pc = 0
              /\ run'.returned
              /\ run'.caught = Steps[run.pc]
              /\ run'.log = SubSeq(Steps, 1, run.pc - 1)
              /\ Warehouse' = Warehouse
        /\ (Idle /\ run.caught # "none")
           => \/ run' = run
              \/ run' = [pc |-> 1, log |-> <<>>, caught |-> "none", returned |-> FALSE]
      ]_vars

\* load_fact_sales raised in a run whose dimension loads stay in the warehouse
C17_Witness ==
    /\ run.caught = "load_fact_sales"
    /\ Len(run.log) = 6
    /\ fact_sales = <<>>
    /\ dim_date # <<>>
    /\ db_dim_customer # <<>>
    /\ dim_product # <<>>

\* C18: the steps of run_full_etl complete in the order of Steps: when
\* load_fact_sales starts, create_warehouse_schema and the five dimension
\* loaders (date, customer, product, order status, payment method) have
\* completed in that order, and when verify_warehouse starts load_fact_sales
\* has completed.
C18_FactLoadAfterDimensions ==
    /\ run.log = SubSeq(Steps, 1, Len(run.log))
    /\ ~Idle => run.pc = Len(run.log) + 1
    /\ (~Idle /\ Steps[run.pc] = "load_fact_sales")
       => run.log = << "create_warehouse_schema", "load_dim_date", "load_dim_customer",
                       "load_dim_product", "load_dim_order_status",
                       "load_dim_payment_method" >>
    /\ (~Idle /\ Steps[run.pc] = "verify_warehouse")
       => run.log[Len(run.log)] = "load_fact_sales"

\* a run has completed all its steps, verify_warehouse last
C18_Witness ==
    /\ Idle
    /\ run.returned
    /\ run.caught = "none"
    /\ Len(run.log) = 8
    /\ run.log[7] = "load_fact_sales"
    /\ run.log[8] = "verify_warehouse"

\* a step of the model in which load_dim_customer ran to completion
CustomerLoadRan ==
    \/ Idle /\ Idle' /\ last'.op = "load_dim_customer"
    \/ ~Idle /\ Steps[run.pc] = "load_dim_customer"
             /\ run'.log = Append(run.log, "load_dim_customer")

\* C19: load_dim_customer run on an empty dim_customer creates one row per
\* source customer, with valid_from = registration_date, valid_to =
\* 9999-12-31 and is_current = 1, so that every customer_id has exactly one
\* row and that row is current.
C19_InitialLoadOneCurrentRowEach ==
    [][(CustomerLoadRan /\ db_dim_customer = <<>>)
       => /\ Len(db_dim_customer') = Len(SourceCustomers)
          /\ \A k \in DOMAIN SourceCustomers :
                \E i \in DOMAIN db_dim_customer' :
                    LET row == db_dim_customer'[i]
                    IN  /\ VersionsOf(db_dim_customer', SourceCustomers[k].customer_id) = {i}
                        /\ row.customer_tier = SourceCustomers[k].customer_tier
                        /\ row.registration_date = SourceCustomers[k].registration_date
                        /\ row.valid_from = SourceCustomers[k].registration_date
                        /\ row.valid_to = <<9999, 12, 31>>
                        /\ row.is_current = 1
          /\ dim_customer' = db_dim_customer'
      ]_vars

\* the load_dim_customer step of a run has loaded the empty dim_customer
C19_Witness ==
    /\ ~Idle
    /\ Len(run.log) = 3
    /\ run.log[3] = "load_dim_customer"
    /\ Len(db_dim_customer) = Len(SourceCustomers)
    /\ \A i \in DOMAIN db_dim_customer : db_dim_customer[i].is_current = 1

\* a step of the model in which the loader `step` ran to completion
LoaderRan(step) ==
    \/ Idle /\ Idle' /\ last'.op = step
    \/ ~Idle /\ Steps[run.pc] = step /\ run'.log = Append(run.log, step)

\* the table a guarded loader loads
TargetOf(wh, step) ==
    CASE step = "load_dim_date"     -> wh.dim_date
      [] step = "load_dim_customer" -> wh.dim_customer
      [] step = "load_dim_product"  -> wh.dim_product
      [] step = "load_fact_sales"   -> wh.fact_sales

GuardedTables == <<dim_date, db_dim_customer, dim_customer, dim_product, fact_sales>>

\* C20: a guarded loader that finds a row in its target table changes no
\* table; and once dim_date, dim_customer, dim_product and fact_sales each
\* hold rows (the loaders have run once), further loader calls and further
\* runs of run_full_etl, in any order, leave these four tables as they are.
C20_GuardedLoadersIdempotent ==
    [][ /\ \A step \in Loaders :
              (LoaderRan(step) /\ TargetOf(Warehouse, step) # <<>>)
              => Warehouse' = Warehouse
        /\ (\A step \in Loaders : TargetOf(Warehouse, step) # <<>>)
           => GuardedTables' = GuardedTables
      ]_vars

\* beside a complete run of run_full_etl, a call of load_dim_date found rows
\* in dim_date and skipped, and the four tables hold rows
C20_Witness ==
    /\ last.op = "load_dim_date"
    /\ last.outcome = "skipped"
    /\ \A step \in Loaders : TargetOf(Warehouse, step) # <<>>
    /\ run.log = Steps

\* a call of run_pipeline has ended
PipelineEnded == pipeline.pc = "idle" /\ pipeline.season_year # 0

\* the phase has run to its end in the last call
PhaseRan(phase) == \E k \in DOMAIN pipeline.phases : pipeline.phases[k] = phase

\* C16: when the extract phase returned no records, when the transform phase
\* gave an empty dataset or when a phase raised, the call of run_pipeline has
\* logged an error, has let no exception out and has returned False.
C16_PipelineErrorsReturnFalse ==
    ( /\ PipelineEnded
      /\ \/ PhaseRan("extract") /\ pipeline.raw_data = <<>>
         \/ PhaseRan("transform") /\ pipeline.clean_data = <<>>
         \/ pipeline.raised # "none" )
    => /\ pipeline.error_logged
       /\ ~pipeline.escaped
       /\ pipeline.result = "False"

\* the load phase of a call raised after extract and transform had data
C16_Witness ==
    /\ PipelineEnded
    /\ pipeline.raised = "load_csv"
    /\ pipeline.clean_data # <<>>
    /\ pipeline.result = "False"

\* the rows of tbl that do not belong to customer_id, in table order
RowsOfOthers(tbl, customer_id) ==
    SelectSeq(tbl, LAMBDA r : r.customer_id # customer_id)

\* C26: a call update_customer_tier(c, t, d) leaves the rows of every other
\* customer_id as they were, all columns included, whatever its outcome: in
\* the table as the connection sees it, and in the committed table when the
\* connection held no uncommitted write before the call.
C26_OtherCustomersUntouched ==
    [][\A c \in CustomerIds :
          CallFor(c)
          => /\ RowsOfOthers(dim_customer', c) = RowsOfOthers(dim_customer, c)
             /\ ~Pending
                => RowsOfOthers(db_dim_customer', c) = RowsOfOthers(db_dim_customer, c)
      ]_vars

\* a completed change of one customer beside another customer with two versions
C26_Witness ==
    /\ last.op = "update_customer_tier"
    /\ last.outcome = "updated"
    /\ \E c \in LoadedIds(dim_customer) :
          /\ c # last.customer_id
          /\ Cardinality(VersionsOf(dim_customer, c)) = 2
          /\ Cardinality(VersionsOf(dim_customer, last.customer_id)) = 2

\* C27: every dim_customer row has valid_from <= valid_to after the initial
\* load and any sequence of update_customer_tier calls (stated for the runs
\* in which no call has raised).
C27_ValidFromNotAfterValidTo ==
    ~aborted =>
        \A i \in DOMAIN dim_customer :
            DateLE(dim_customer[i].valid_from, dim_customer[i].valid_to)

\* C21: load_dim_date run on an empty dim_date with start_date <= end_date
\* inserts one row for each calendar day from start_date through end_date:
\* the first row is start_date, each next row is the next calendar day, the
\* last row is end_date, and date_key is the integer YYYYMMDD of the row's
\* day, so the date_keys are strictly increasing.
C21_OneRowPerDayInRange ==
    [][(LoaderRan("load_dim_date") /\ dim_date = <<>>)
       => /\ dim_date' # <<>>
          /\ << dim_date'[1].full_date, dim_date'[Len(dim_date')].full_date >> \in DateRanges
          /\ ~Idle => dim_date'[1].full_date = <<2023, 1, 1>>
                      /\ dim_date'[Len(dim_date')].full_date = <<2025, 12, 31>>
          /\ \A k \in DOMAIN dim_date' :
                /\ IsDate(dim_date'[k].full_date)
                /\ dim_date'[k].date_key = dim_date'[k].full_date[1] * 10000
                                           + dim_date'[k].full_date[2] * 100
                                           + dim_date'[k].full_date[3]
                /\ k > 1 => /\ IsDayBefore(dim_date'[k - 1].full_date, dim_date'[k].full_date)
                            /\ dim_date'[k - 1].date_key < dim_date'[k].date_key
      ]_vars

\* load_dim_date was called for 2024-02-27 .. 2024-03-02 and loaded the five
\* days, the leap day among them
C21_Witness ==
    /\ last.op = "load_dim_date"
    /\ last.outcome = "loaded"
    /\ Len(dim_date) = 5
    /\ dim_date[3].date_key = 20240229

\* the names of the claim, by key
StatusNames == << "Pending", "Shipped", "Completed", "Cancelled" >>

PaymentNames == << "Credit Card", "Debit Card", "PayPal", "Apple Pay" >>

\* C22: the keys hard-coded in load_fact_sales are the positions at which
\* load_dim_order_status and load_dim_payment_method insert the row of that
\* name, and in every fact row status_key and payment_method_key are the
\* positions of the dimension rows named like the order's status and like the
\* payment method derived from the order_id (order_id % 4 = 0 Credit Card,
\* 1 Debit Card, 2 PayPal, 3 Apple Pay).
C22_HardCodedKeysMatchPositions ==
    /\ \A k \in 1..4 :
          /\ status_mapping[StatusNames[k]] = k
          /\ payment_mapping[PaymentNames[k]] = k
          /\ dim_order_status # <<>> => dim_order_status[k].status_name = StatusNames[k]
          /\ dim_payment_method # <<>>
             => dim_payment_method[k].payment_method_name = PaymentNames[k]
    /\ \A n \in DOMAIN fact_sales :
          LET item == SourceItemOf(fact_sales[n])
          IN  /\ StatusNames[fact_sales[n].status_key] = item.order_status
              /\ PaymentNames[fact_sales[n].payment_method_key]
                    = PaymentNames[(item.order_id % 4) + 1]
              /\ dim_order_status # <<>>
                 => dim_order_status[fact_sales[n].status_key].status_name
                        = item.order_status
              /\ dim_payment_method # <<>>
                 => dim_payment_method[fact_sales[n].payment_method_key].payment_method_name
                        = PaymentNames[(item.order_id % 4) + 1]

\* a run of run_full_etl has loaded both dimensions and fact rows of two
\* orders with different payment methods
C22_Witness ==
    /\ dim_order_status # <<>>
    /\ dim_payment_method # <<>>
    /\ run.log = Steps
    /\ \E n, m \in DOMAIN fact_sales :
          /\ fact_sales[n].payment_method_key = 2
          /\ fact_sales[m].payment_method_key = 3
          /\ fact_sales[n].status_key = 3

\* the phases of run_pipeline, in the order of the claim
PhaseOrder == << "extract", "transform", "load_csv", "load_sqlite" >>

\* C23: in a call of run_pipeline the phases that have run are an initial part
\* of extract, transform, load to CSV, load to SQLite, each once, and the
\* phase under way is the next one; transform starts and runs only when
\* extraction returned records, the loads only when the transformed dataset
\* is not empty.
C23_PhasesOnceInOrder ==
    /\ pipeline.phases = SubSeq(PhaseOrder, 1, Len(pipeline.phases))
    /\ pipeline.pc # "idle" => pipeline.pc = PhaseOrder[Len(pipeline.phases) + 1]
    /\ (pipeline.pc = "transform" \/ PhaseRan("transform"))
       => pipeline.raw_data # <<>>
    /\ (pipeline.pc \in {"load_csv", "load_sqlite"} \/ PhaseRan("load_csv")
            \/ PhaseRan("load_sqlite"))
       => pipeline.clean_data # <<>>
    /\ (pipeline.raised = "transform") => pipeline.raw_data # <<>>
    /\ (pipeline.raised \in {"load_csv", "load_sqlite"}) => pipeline.clean_data # <<>>

\* a call has run its four phases and stored its rows, and a later call has
\* ended after an extract without records
C23_Witness ==
    /\ PipelineEnded
    /\ pipeline.phases = << "extract" >>
    /\ pipeline.raw_data = <<>>
    /\ pipeline.player_totals # <<>>
    /\ pipeline.csv_files # {}

\* C24: a call of run_pipeline that returned True had load_to_csv return a
\* path and load_to_sqlite return True.
C24_TrueOnlyIfBothLoadsSucceeded ==
    (PipelineEnded /\ pipeline.result = "True")
    => (pipeline.csv_path # "None" /\ pipeline.db_success)

\* C25: after _handle_duplicates every player name of the DataFrame occurs in
\* exactly one row of the result.
C25_OneRowPerPlayer ==
    frame.applied = 1
    => \A k \in DOMAIN frame.df :
          Cardinality({i \in DOMAIN frame.out :
                          frame.out[i].player = frame.df[k].player}) = 1

====
